---- MODULE Spec2Model ----
(***************************************************************************)
(* Model of workstation-bootstrap: the install orchestrator               *)
(* (src/install.py), the app catalog (src/core/app.py), the environment    *)
(* context (src/core/context.py) and the two package managers              *)
(* (src/core/manager.py).                                                  *)
(*                                                                         *)
(* Strings are sequences of one-character strings, so that str.lower and   *)
(* str.replace are computed.  Every external command (subprocess.run) and  *)
(* every filesystem probe acts on the record fs; the outcome of an         *)
(* external command is an input of the operation that runs it.             *)
(***************************************************************************)
EXTENDS Naturals, Sequences, FiniteSets, TLC

VARIABLES
    args,                 \* parsed command line: mode, force, custom_bin_path
    app_name_list,        \* the requested app names, in file order
    pc,                   \* position of main()
    idx,                  \* index of the next name the resolution loop takes
    run_no,               \* 1: first run of the tool, 2: the rerun
    env_ctx,              \* EnvironmentContext, or NoCtx before detection
    mode,                 \* the selected manager name, "" before selection
    app,                  \* the App object the loop built last, or NoApp
    manager_install_apps, \* the list enqueued for manager installation
    manager,              \* the PackageManager instance
    fs,                   \* search path, user-local bin, mamba locations, env
    op,                   \* the operation the last step ran
    log,                  \* external effects, in the order they were issued
    printed,              \* what main has printed about the requested apps
    result                \* what the last operation returned or raised

vars == <<args, app_name_list, pc, idx, run_no, env_ctx, mode, app,
          manager_install_apps, manager, fs, op, log, printed, result>>

---------------------------------------------------------------------------
(* Bounds of the model *)

\* Longest requested-app list.
MaxApps == 2

\* Most calls made on one manager instance.
MaxCalls == 3

---------------------------------------------------------------------------
(* Strings *)

S_neovim == <<"n", "e", "o", "v", "i", "m">>
S_nvim == <<"n", "v", "i", "m">>
S_editorX == <<"e", "d", "i", "t", "o", "r", "X">>
S_editorx == <<"e", "d", "i", "t", "o", "r", "x">>
S_ex == <<"e", "x">>
S_exd == <<"e", "x", "d">>
S_myTool == <<"m", "y", " ", "T", "o", "o", "l">>
S_unknownTool == <<"u", "n", "k", "n", "o", "w", "n", "T", "o", "o", "l">>
S_brew == <<"b", "r", "e", "w">>
S_apps == <<"a", "p", "p", "s">>
S_dev_apps == <<"d", "e", "v", "-", "a", "p", "p", "s">>
S_webapps == <<"w", "e", "b", "a", "p", "p", "s">>

\* str.lower on one character of the alphabet in use.
LowerChar(c) ==
    CASE c = "X" -> "x"
      [] c = "T" -> "t"
      [] c = "N" -> "n"
      [] OTHER -> c

\* str.lower
lower(s) == [k \in 1..Len(s) |-> LowerChar(s[k])]

\* str.replace(" ", "-")
hyphenate(s) == [k \in 1..Len(s) |-> IF s[k] = " " THEN "-" ELSE s[k]]

---------------------------------------------------------------------------
(* The app catalog: src/core/app.py *)

\* commands.json: lowercase app name -> its command names.
COMMANDS_DICT == (S_neovim :> <<S_nvim>>) @@ (S_editorx :> <<S_ex, S_exd>>)

\* App._get_commands
_get_commands(name) ==
    IF lower(name) \in DOMAIN COMMANDS_DICT
    THEN COMMANDS_DICT[lower(name)]
    ELSE <<lower(name)>>

\* APP_REGISTRY: the names registered with @APP_REGISTRY.register.
APP_REGISTRY == {S_neovim}

\* AppRegistry.get_app finding every name registered.
get_app_any(name) == "Neovim"

\* AppRegistry.get_app(name): the registered class, or "ValueError".
get_app(name) == IF name \in APP_REGISTRY THEN "Neovim" ELSE "ValueError"

\* App(name=...) and Neovim(name=...): __post_init__ fills commands.
App(cls, name) == [cls |-> cls, name |-> name, commands |-> _get_commands(name)]

\* No app class having an install method.
has_install_none(a) == FALSE

\* hasattr(app, 'install') and callable(...)
has_install(a) == a.cls = "Neovim"

NoApp == [cls |-> "", name |-> <<>>, commands |-> <<>>]

\* The names an app list may hold.
Pool == {S_neovim, S_editorX, S_myTool}

\* A list with a catalogued and an unknown name, neither registered.
UnknownToolList == <<S_editorX, S_unknownTool>>

\* Every command name a requested app has.
Cmds ==
    UNION {{_get_commands(n)[k] : k \in 1..Len(_get_commands(n))} :
              n \in Pool \cup {S_unknownTool}}

AppCmds(a) == {a.commands[k] : k \in 1..Len(a.commands)}

---------------------------------------------------------------------------
(* The filesystem and the search path *)

\* An entry of ~/.local/bin: absent, an executable file, a file without the
\* executable bit, a symbolic link to an env binary, a dangling link.
BinKinds == {"absent", "file", "data", "link", "dangling"}

\* Path.exists(): follows links, so a dangling link does not exist.
exists(kind) == kind \in {"file", "data", "link"}

\* shutil.which(cmd)
which(f, cmd) ==
    \/ cmd \in f.path
    \/ /\ f.binOnPath
       /\ cmd \in DOMAIN f.bin
       /\ f.bin[cmd] \in {"file", "link"}

\* App.is_installed looking at the last command instead of the first.
is_installed_last(f, a) == which(f, a.commands[Len(a.commands)])

\* App.is_installed
is_installed(f, a) == which(f, a.commands[1])

\* A log entry: one external effect.
Ev(what, who, names, force) ==
    [op |-> what, who |-> who, names |-> names, force |-> force]

\* What an operation hands back: the new filesystem, the effects it issued
\* and its return value or the exception it raised.
Out(f, out, res) == [fs |-> f, out |-> out, res |-> res]

\* What a manager operation hands back: the manager, the context and the
\* filesystem after it, the effects it issued, its return value or exception.
MOut(m, c, f, out, res) == [manager |-> m, ctx |-> c, fs |-> f, out |-> out, res |-> res]

---------------------------------------------------------------------------
(* Neovim.install: src/core/app.py *)

\* Neovim.install without its brew branch.
Neovim_install_no_brew(f, a, force_reinstall, ext) ==
    IF exists(f.bin[S_nvim]) /\ ~force_reinstall
    THEN Out(f, <<>>, "True")
    ELSE LET f1 == [f EXCEPT !.binDir = TRUE]
             ev == <<Ev("download", "curl", <<S_nvim>>, force_reinstall)>>
         IN  CASE ext.ok = "fail" -> Out(f1, ev, "CalledProcessError")
               [] ext.ok = "fail2" ->
                    Out([f1 EXCEPT !.bin[S_nvim] = "data"], ev, "CalledProcessError")
               [] OTHER -> Out([f1 EXCEPT !.bin[S_nvim] = "file"], ev, "True")

\* ext.ok: outcome of the commands; ext.provides: the commands the installed
\* package really puts on the search path.
Neovim_install(f, a, force_reinstall, ext) ==
    IF which(f, S_brew)
    THEN LET ev == <<Ev("install", "brew", <<S_neovim>>, force_reinstall)>> IN
         IF ext.ok = "ok"
         THEN Out([f EXCEPT !.path = @ \cup (ext.provides \cap AppCmds(a))], ev, "True")
         ELSE Out(f, ev, "CalledProcessError")
    ELSE IF exists(f.bin[S_nvim]) /\ ~force_reinstall
    THEN Out(f, <<>>, "True")
    ELSE LET f1 == [f EXCEPT !.binDir = TRUE]
             ev == <<Ev("download", "curl", <<S_nvim>>, force_reinstall)>>
         IN  CASE ext.ok = "fail" -> Out(f1, ev, "CalledProcessError")
               [] ext.ok = "fail2" ->
                    Out([f1 EXCEPT !.bin[S_nvim] = "data"], ev, "CalledProcessError")
               [] OTHER -> Out([f1 EXCEPT !.bin[S_nvim] = "file"], ev, "True")

---------------------------------------------------------------------------
(* The package managers: src/core/manager.py *)

\* PackageManager.__init__ / Homebrew.__init__ / Miniforge.__init__
\* bin_path is "None", "custom" (the --custom-bin-path), "home"
\* (~/miniforge3/bin/mamba) or "opt" (/opt/miniforge3/bin/mamba).
NewManager(cls, name, custom_bin_path) ==
    [cls |-> cls, name |-> name, is_installed |-> FALSE, bin_path |-> custom_bin_path]

NoManager == [cls |-> "", name |-> "", is_installed |-> FALSE, bin_path |-> "None"]

\* PACKAGE_MANAGER_REGISTRY.get_manager(name)
get_manager(name) == IF name = "brew" THEN "Homebrew" ELSE "Miniforge"

\* Homebrew._install_package_manager.  ext.ok = "fail": the install script
\* failed; "fail2": 'source ~/.profile' failed; ext.flag: the new brew is
\* on the search path of this process.
Homebrew_install_package_manager(m, c, f, ext) ==
    IF m.is_installed
    THEN MOut(m, c, f, <<>>, "RuntimeError")
    ELSE LET ev == <<Ev("bootstrap", "brew", <<>>, FALSE)>> IN
         IF ext.ok = "fail"
         THEN MOut(m, c, f, ev, "CalledProcessError")
         ELSE LET f1 == [f EXCEPT !.path = @ \cup (IF ext.flag THEN {S_brew} ELSE {})]
                  c1 == [c EXCEPT !.has_sudo = TRUE]
              IN  IF ext.ok = "fail2"
                  THEN MOut(m, c1, f1, ev, "CalledProcessError")
                  ELSE MOut([m EXCEPT !.is_installed = TRUE], c1, f1, ev, "True")

\* Homebrew.ensure_available
Homebrew_ensure_available(m, c, f, ext) ==
    IF which(f, S_brew)
    THEN MOut([m EXCEPT !.is_installed = TRUE], c, f, <<>>, "True")
    ELSE Homebrew_install_package_manager(m, c, f, ext)

\* Homebrew.install_package issuing the command a second time when it failed.
Homebrew_install_package_retry(m, c, f, packages_list, force_reinstall, ext) ==
    IF ~m.is_installed
    THEN MOut(m, c, f, <<>>, "RuntimeError")
    ELSE LET names == [k \in 1..Len(packages_list) |-> packages_list[k].name]
             cmds == UNION {AppCmds(packages_list[k]) : k \in 1..Len(packages_list)}
             ev == <<Ev("install", "brew", names, force_reinstall)>>
         IN  IF ~which(f, S_brew)
             THEN MOut(m, c, f, ev \o ev, "FileNotFoundError")
             ELSE IF ext.ok # "ok"
             THEN MOut(m, c, f, ev \o ev, "CalledProcessError")
             ELSE MOut(m, c, [f EXCEPT !.path = @ \cup (ext.provides \cap cmds)], ev, "None")

\* Homebrew.install_package.  ext.provides: the commands the packages put
\* on the search path.
Homebrew_install_package(m, c, f, packages_list, force_reinstall, ext) ==
    IF ~m.is_installed
    THEN MOut(m, c, f, <<>>, "RuntimeError")
    ELSE LET names == [k \in 1..Len(packages_list) |-> packages_list[k].name]
             cmds == UNION {AppCmds(packages_list[k]) : k \in 1..Len(packages_list)}
             ev == <<Ev("install", "brew", names, force_reinstall)>>
         IN  IF ~which(f, S_brew)
             THEN MOut(m, c, f, ev, "FileNotFoundError")
             ELSE IF ext.ok # "ok"
             THEN MOut(m, c, f, ev, "CalledProcessError")
             ELSE MOut(m, c, [f EXCEPT !.path = @ \cup (ext.provides \cap cmds)], ev, "None")

\* Homebrew._link_binary marking the manager installed.
Homebrew_link_binary_ready(m, c, f, a) ==
    MOut([m EXCEPT !.is_installed = TRUE], c, f, <<>>, "None")

\* Homebrew._link_binary
Homebrew_link_binary(m, c, f, a) == MOut(m, c, f, <<>>, "None")

\* Miniforge._install_package_manager.  ext.ok = "fail": wget, chmod or the
\* installer failed; "fail2": the installer ran and 'rm' failed; ext.flag:
\* the installer left bin/mamba in ~/miniforge3.
Miniforge_install_package_manager(m, c, f, ext) ==
    IF m.is_installed
    THEN MOut(m, c, f, <<>>, "RuntimeError")
    ELSE LET ev == <<Ev("bootstrap", "mamba", <<>>, FALSE)>> IN
         IF ext.ok = "fail"
         THEN MOut(m, c, f, ev, "CalledProcessError")
         ELSE LET f1 == [f EXCEPT !.mamba = @ \cup (IF ext.flag THEN {"home"} ELSE {})] IN
              IF ext.ok = "fail2"
              THEN MOut(m, c, f1, ev, "CalledProcessError")
              ELSE MOut([m EXCEPT !.bin_path = "home", !.is_installed = TRUE],
                        c, f1, ev, "True")

\* Miniforge.ensure_available probing /opt before the home directory.
Miniforge_ensure_available_opt_first(m, c, f, ext) ==
    IF m.bin_path # "None" /\ m.bin_path \in f.mamba
    THEN MOut([m EXCEPT !.is_installed = TRUE], c, f, <<>>, "True")
    ELSE IF "opt" \in f.mamba
    THEN MOut([m EXCEPT !.bin_path = "opt", !.is_installed = TRUE], c, f, <<>>, "True")
    ELSE IF "home" \in f.mamba
    THEN MOut([m EXCEPT !.bin_path = "home", !.is_installed = TRUE], c, f, <<>>, "True")
    ELSE Miniforge_install_package_manager(m, c, f, ext)

\* Miniforge.ensure_available
Miniforge_ensure_available(m, c, f, ext) ==
    IF m.bin_path # "None" /\ m.bin_path \in f.mamba
    THEN MOut([m EXCEPT !.is_installed = TRUE], c, f, <<>>, "True")
    ELSE IF "home" \in f.mamba
    THEN MOut([m EXCEPT !.bin_path = "home", !.is_installed = TRUE], c, f, <<>>, "True")
    ELSE IF "opt" \in f.mamba
    THEN MOut([m EXCEPT !.bin_path = "opt", !.is_installed = TRUE], c, f, <<>>, "True")
    ELSE Miniforge_install_package_manager(m, c, f, ext)

\* Miniforge.__init__: self.apps_env_name
apps_env_name == S_apps

\* A word constituent of grep -w: a letter, a digit or the underscore.
IsWordChar(c) == c \notin {"-", " ", "/", "."}

\* 'grep word -w' selects the line: the word occurs in it, neither preceded
\* nor followed by a word constituent.
grep_w(line, word) ==
    \E i \in 1..Len(line) :
        /\ i + Len(word) - 1 <= Len(line)
        /\ SubSeq(line, i, i + Len(word) - 1) = word
        /\ i = 1 \/ ~IsWordChar(line[i - 1])
        /\ i + Len(word) - 1 = Len(line) \/ ~IsWordChar(line[i + Len(word)])

\* 'mamba env list': one line per environment, holding its name.
env_list(f) == (IF f.env THEN {apps_env_name} ELSE {}) \cup f.otherEnvs

\* Miniforge._check_env_exists: 'mamba env list | grep apps -w' exits 0.
Miniforge_check_env_exists(m, c, f) ==
    IF ~m.is_installed
    THEN MOut(m, c, f, <<>>, "RuntimeError")
    ELSE MOut(m, c, f, <<Ev("env_query", "mamba", <<>>, FALSE)>>,
              IF m.bin_path \in f.mamba
                   /\ \E line \in env_list(f) : grep_w(line, apps_env_name)
              THEN "True" ELSE "False")

\* Miniforge._create_env
Miniforge_create_env(m, c, f, ext) ==
    IF ~m.is_installed
    THEN MOut(m, c, f, <<>>, "RuntimeError")
    ELSE LET ev == <<Ev("env_create", "mamba", <<>>, FALSE)>> IN
         IF m.bin_path \in f.mamba /\ ext.ok # "fail"
         THEN MOut(m, c, [f EXCEPT !.env = TRUE], ev, "None")
         ELSE MOut(m, c, f, ev, "CalledProcessError")

\* source_path.exists(): bin_name is a binary of the environment 'apps' of
\* the installation bin_path belongs to.
source_exists(m, f, bin_name) == m.bin_path \in f.mamba /\ bin_name \in f.envBin

\* The loop of _link_binary replacing an existing target instead of leaving
\* it alone.
RECURSIVE link_from_replace(_, _, _, _, _, _, _)
link_from_replace(m, c, f, a, k, linkFail, out) ==
    IF k > Len(a.commands)
    THEN MOut(m, c, f, out, "None")
    ELSE LET bin_name == a.commands[k] IN
         IF m.bin_path = "None"
         THEN MOut(m, c, f, out, "AttributeError")
         ELSE IF ~source_exists(m, f, bin_name)
         THEN MOut(m, c, f, Append(out, Ev("link", "skip_source", <<bin_name>>, FALSE)), "None")
         ELSE IF ~f.binDir \/ bin_name \in linkFail
         THEN link_from_replace(m, c, f, a, k + 1, linkFail,
                                Append(out, Ev("link", "failed", <<bin_name>>, FALSE)))
         ELSE link_from_replace(m, c, [f EXCEPT !.bin[bin_name] = "link"], a, k + 1,
                                linkFail,
                                Append(out, Ev("link", "linked", <<bin_name>>, FALSE)))

\* The loop of _link_binary without the try/except around symlink_to.
RECURSIVE link_from_raise(_, _, _, _, _, _, _)
link_from_raise(m, c, f, a, k, linkFail, out) ==
    IF k > Len(a.commands)
    THEN MOut(m, c, f, out, "None")
    ELSE LET bin_name == a.commands[k] IN
         IF exists(f.bin[bin_name])
         THEN MOut(m, c, f, Append(out, Ev("link", "skip_target", <<bin_name>>, FALSE)), "None")
         ELSE IF m.bin_path = "None"
         THEN MOut(m, c, f, out, "AttributeError")
         ELSE IF ~source_exists(m, f, bin_name)
         THEN MOut(m, c, f, Append(out, Ev("link", "skip_source", <<bin_name>>, FALSE)), "None")
         ELSE IF ~f.binDir \/ f.bin[bin_name] # "absent" \/ bin_name \in linkFail
         THEN MOut(m, c, f, Append(out, Ev("link", "failed", <<bin_name>>, FALSE)), "OSError")
         ELSE link_from_raise(m, c, [f EXCEPT !.bin[bin_name] = "link"], a, k + 1, linkFail,
                              Append(out, Ev("link", "linked", <<bin_name>>, FALSE)))

\* One round of the loop of Miniforge._link_binary, from command k on.
\* linkFail: the commands whose symlink_to raises.
RECURSIVE link_from(_, _, _, _, _, _, _)
link_from(m, c, f, a, k, linkFail, out) ==
    IF k > Len(a.commands)
    THEN MOut(m, c, f, out, "None")
    ELSE LET bin_name == a.commands[k] IN
         IF exists(f.bin[bin_name])
         THEN MOut(m, c, f, Append(out, Ev("link", "skip_target", <<bin_name>>, FALSE)), "None")
         ELSE IF m.bin_path = "None"
         THEN MOut(m, c, f, out, "AttributeError")
         ELSE IF ~source_exists(m, f, bin_name)
         THEN MOut(m, c, f, Append(out, Ev("link", "skip_source", <<bin_name>>, FALSE)), "None")
         ELSE IF ~f.binDir \/ f.bin[bin_name] # "absent" \/ bin_name \in linkFail
         THEN link_from(m, c, f, a, k + 1, linkFail,
                        Append(out, Ev("link", "failed", <<bin_name>>, FALSE)))
         ELSE link_from(m, c, [f EXCEPT !.bin[bin_name] = "link"], a, k + 1, linkFail,
                        Append(out, Ev("link", "linked", <<bin_name>>, FALSE)))

\* Miniforge._link_binary
Miniforge_link_binary(m, c, f, a, linkFail) == link_from(m, c, f, a, 1, linkFail, <<>>)

\* The linking loop taking the apps from the last to the first.
RECURSIVE link_all_reversed(_, _, _, _, _, _, _)
link_all_reversed(m, c, f, packages_list, k, linkFail, out) ==
    IF k > Len(packages_list)
    THEN MOut(m, c, f, out, "None")
    ELSE LET r == Miniforge_link_binary(m, c, f,
                      packages_list[Len(packages_list) + 1 - k], linkFail)
         IN
         IF r.res # "None"
         THEN MOut(m, c, r.fs, out \o r.out, r.res)
         ELSE link_all_reversed(m, c, r.fs, packages_list, k + 1, linkFail, out \o r.out)

\* 'for app in packages_list: self._link_binary(app)'
RECURSIVE link_all(_, _, _, _, _, _, _)
link_all(m, c, f, packages_list, k, linkFail, out) ==
    IF k > Len(packages_list)
    THEN MOut(m, c, f, out, "None")
    ELSE LET r == Miniforge_link_binary(m, c, f, packages_list[k], linkFail) IN
         IF r.res # "None"
         THEN MOut(m, c, r.fs, out \o r.out, r.res)
         ELSE link_all(m, c, r.fs, packages_list, k + 1, linkFail, out \o r.out)

\* Miniforge.install_package.  ext.ok = "fail": 'mamba create' fails when it
\* is run; "fail2": 'mamba install' fails, as it does whenever the
\* environment it names is not there; ext.provides: the binaries the
\* packages put into the environment; ext.linkFail: see link_from.
Miniforge_install_package(m, c, f, packages_list, force_reinstall, ext) ==
    IF ~m.is_installed
    THEN MOut(m, c, f, <<>>, "RuntimeError")
    ELSE LET q == Miniforge_check_env_exists(m, c, f)
             cr == IF q.res = "True"
                   THEN MOut(m, c, f, q.out, "None")
                   ELSE LET r == Miniforge_create_env(m, c, f, ext) IN
                        MOut(m, c, r.fs, q.out \o r.out, r.res)
             names == [k \in 1..Len(packages_list) |-> packages_list[k].name]
             cmds == UNION {AppCmds(packages_list[k]) : k \in 1..Len(packages_list)}
             ev == <<Ev("install", "mamba", names, force_reinstall)>>
         IN  IF cr.res # "None"
             THEN cr
             ELSE IF m.bin_path \notin f.mamba
             THEN MOut(m, c, cr.fs, cr.out \o ev, "FileNotFoundError")
             ELSE IF ext.ok = "fail2" \/ ~cr.fs.env
             THEN MOut(m, c, cr.fs, cr.out \o ev, "CalledProcessError")
             ELSE link_all(m, c, [cr.fs EXCEPT !.envBin = @ \cup (ext.provides \cap cmds)],
                           packages_list, 1, ext.linkFail, cr.out \o ev)

\* Dispatch on the class of the instance.
ensure_available(m, c, f, ext) ==
    IF m.cls = "Homebrew"
    THEN Homebrew_ensure_available(m, c, f, ext)
    ELSE Miniforge_ensure_available(m, c, f, ext)

install_package(m, c, f, packages_list, force_reinstall, ext) ==
    IF m.cls = "Homebrew"
    THEN Homebrew_install_package(m, c, f, packages_list, force_reinstall, ext)
    ELSE Miniforge_install_package(m, c, f, packages_list, force_reinstall, ext)

_link_binary(m, c, f, a, linkFail) ==
    IF m.cls = "Homebrew"
    THEN Homebrew_link_binary(m, c, f, a)
    ELSE Miniforge_link_binary(m, c, f, a, linkFail)

---------------------------------------------------------------------------
(* The environment context: src/core/context.py *)

NoCtx == [has_sudo |-> FALSE, home |-> "", local_bin |-> ""]

\* EnvironmentContext(has_sudo=..., home=Path.home(), local_bin=home/.local/bin)
EnvironmentContext(has_sudo) ==
    [has_sudo |-> has_sudo, home |-> "~", local_bin |-> "~/.local/bin"]

\* EnvironmentContext.detect: probe is the exit status of the sudo probe;
\* the user-local bin directory is created when missing.
detect(f, probe) ==
    [ctx |-> EnvironmentContext(probe), fs |-> [f EXCEPT !.binDir = TRUE]]

---------------------------------------------------------------------------
(* The orchestrator: src/install.py *)

\* choose_mode with its branches swapped.
choose_mode_swapped(c) == IF c.has_sudo THEN "mamba" ELSE "brew"

\* choose_mode
choose_mode(c) == IF c.has_sudo THEN "brew" ELSE "mamba"

\* '--- detect environment ---' without main's own check of the directory.
detect_environment_no_mkdir(a, f, probe) ==
    LET d == IF a.mode = "mamba"
             THEN [ctx |-> EnvironmentContext(FALSE), fs |-> f]
             ELSE detect(f, probe)
    IN  [ctx |-> d.ctx,
         fs |-> d.fs,
         mode |-> IF a.mode = "auto" THEN choose_mode(d.ctx) ELSE a.mode]

\* main, '--- detect environment ---': the context, the directory, the mode.
detect_environment(a, f, probe) ==
    LET d == IF a.mode = "mamba"
             THEN [ctx |-> EnvironmentContext(FALSE), fs |-> f]
             ELSE detect(f, probe)
    IN  [ctx |-> d.ctx,
         fs |-> [d.fs EXCEPT !.binDir = TRUE],
         mode |-> IF a.mode = "auto" THEN choose_mode(d.ctx) ELSE a.mode]

\* A line main prints: the message and the app names it shows.
Msg(text, names) == [msg |-> text, names |-> names]

\* What one round of the resolution loop hands back.
ROut(f, a, queue, out, msgs, res) ==
    [fs |-> f, app |-> a, queue |-> queue, out |-> out, msgs |-> msgs, res |-> res]

\* main, one round of 'for app_name in app_name_list'.  res is "continue",
\* or the exception that leaves main.
resolve_app(f, app_name, force, queue, ext) ==
    LET cls == get_app(lower(app_name)) IN
    IF cls # "ValueError"
    THEN LET a == App(cls, app_name) IN
         IF is_installed(f, a) /\ ~force
         THEN ROut(f, a, queue, <<>>,
                   <<Msg("is already installed. Skipping installation.", <<app_name>>)>>,
                   "continue")
         ELSE IF ~has_install(a)
         THEN ROut(f, a, Append(queue, a), <<>>,
                   <<Msg("does not have a custom install method.", <<app_name>>)>>,
                   "continue")
         ELSE LET r == Neovim_install(f, a, force, ext)
                  out == <<Ev("custom", "", <<app_name>>, force)>> \o r.out
                  m1 == <<Msg("Installing via its custom install method.", <<app_name>>)>>
                  m2 == <<Msg("installed via custom method failed or is not installed.",
                              <<app_name>>)>>
              IN  CASE r.res = "True" -> ROut(r.fs, a, queue, out, m1, "continue")
                    [] r.res = "False" ->
                         ROut(r.fs, a, Append(queue, a), out, m1 \o m2, "continue")
                    [] OTHER -> ROut(r.fs, a, queue, out, m1, r.res)
    ELSE LET a == App("App", app_name)
             m1 == <<Msg("is not registered.", <<app_name>>)>>
         IN
         IF is_installed(f, a) /\ ~force
         THEN ROut(f, a, queue, <<>>,
                   m1 \o <<Msg("is already installed. Skipping installation.",
                               <<app_name>>)>>,
                   "continue")
         ELSE ROut(f, a, Append(queue, a), <<>>, m1, "continue")

\* main, '--- set manager ---'
set_manager(a, m) ==
    IF a.custom_bin_path # "None" /\ m = "mamba"
    THEN NewManager(get_manager("mamba"), m, "custom")
    ELSE NewManager(get_manager(m), m, "None")

---------------------------------------------------------------------------
(* Initial states *)

Locations == {"custom", "home", "opt"}

AllAbsent == [c \in Cmds |-> "absent"]

\* ~/.local/bin with at most one entry, of one of the given kinds.
BinInit(cmds, kinds) ==
    {AllAbsent} \cup {[AllAbsent EXCEPT ![c] = k] : c \in cmds, k \in kinds}

FirstCmds(names) == {_get_commands(names[k])[1] : k \in 1..Len(names)}

\* The command lines: --custom-bin-path comes with --mode mamba.
CommandLines ==
    {a \in [mode : {"auto", "brew", "mamba"},
            force_reinstall : BOOLEAN,
            custom_bin_path : {"None", "custom"}] :
        a.custom_bin_path = "custom" => a.mode = "mamba"}

\* The machine the tool is started on: some of the requested commands and
\* brew may be on the search path, a mamba may be installed (at the custom
\* path when one is given, else in the home directory; none is looked at
\* with --mode brew), ~/.local/bin is empty or missing, and no environment
\* has been created yet.
FsRun(names, a) ==
    [path : SUBSET ({S_brew} \cup FirstCmds(names)),
     binOnPath : BOOLEAN,
     binDir : BOOLEAN,
     bin : {AllAbsent},
     mamba : SUBSET (CASE a.mode = "brew" -> {}
                       [] a.custom_bin_path = "None" -> {"home"}
                       [] OTHER -> {"custom"}),
     env : {FALSE},
     otherEnvs : {{}},
     envBin : {{}}]

Init ==
    /\ args \in CommandLines
    /\ app_name_list \in UNION {[1..n -> Pool] : n \in 0..MaxApps} \cup {UnknownToolList}
    /\ fs \in FsRun(app_name_list, args)
    /\ pc = "detect"
    /\ idx = 1
    /\ run_no = 1
    /\ env_ctx = NoCtx
    /\ mode = ""
    /\ app = NoApp
    /\ manager_install_apps = <<>>
    /\ manager = NoManager
    /\ op = ""
    /\ log = <<>>
    /\ printed = <<>>
    /\ result = ""

BatchCmds(packages_list) ==
    UNION {AppCmds(packages_list[k]) : k \in 1..Len(packages_list)}

\* The outcomes of install_package's external commands: a command fails, or
\* all succeed, the packages provide some of their commands and some of the
\* links cannot be created.
ExtInstall(m, cmds) ==
    {[ok |-> o, provides |-> {}, linkFail |-> {}] : o \in {"fail", "fail2"}}
        \cup UNION {{[ok |-> "ok", provides |-> p, linkFail |-> l] :
                        l \in IF m.cls = "Homebrew" THEN {{}} ELSE SUBSET p} :
                    p \in SUBSET cmds}

\* The outcomes of the commands of Neovim.install.
ExtCustom ==
    {[ok |-> o, provides |-> {}] : o \in {"fail", "fail2"}}
        \cup {[ok |-> "ok", provides |-> p] : p \in SUBSET {S_nvim}}

\* The outcomes of the bootstrap installer's commands.
ExtBootstrap ==
    {[ok |-> "fail", flag |-> FALSE]}
        \cup [ok : {"fail2", "ok"}, flag : BOOLEAN]

---------------------------------------------------------------------------
(* The steps of main, from '--- detect environment ---' on: the git check
   before it (utils/check_git.py) touches nothing the steps below read. *)

\* '--- detect environment ---' and '--- app list ---'
DetectEnvironment ==
    /\ pc = "detect"
    /\ \E probe \in BOOLEAN :
        LET d == detect_environment(args, fs, probe) IN
        /\ env_ctx' = d.ctx
        /\ fs' = d.fs
        /\ mode' = d.mode
    /\ pc' = "resolve"
    /\ op' = "detect"
    /\ result' = "None"
    /\ printed' = Append(printed, Msg("App names to install:", app_name_list))
    /\ UNCHANGED <<args, app_name_list, idx, run_no, app, manager_install_apps,
                   manager, log>>

\* One round of '--- determine apps to install ---'
ResolveApp ==
    /\ pc = "resolve"
    /\ idx <= Len(app_name_list)
    /\ \E ext \in ExtCustom :
        LET r == resolve_app(fs, app_name_list[idx], args.force_reinstall,
                             manager_install_apps, ext)
        IN  /\ fs' = r.fs
            /\ app' = r.app
            /\ manager_install_apps' = r.queue
            /\ log' = log \o r.out
            /\ printed' = printed \o r.msgs
            /\ result' = r.res
            /\ pc' = IF r.res = "continue" THEN "resolve" ELSE "error"
    /\ idx' = idx + 1
    /\ op' = "resolve"
    /\ UNCHANGED <<args, app_name_list, run_no, env_ctx, mode, manager>>

\* '--- set manager ---' without the 'return' on an empty list before it.
SetManager_no_return ==
    /\ pc = "resolve"
    /\ idx > Len(app_name_list)
    /\ pc' = "ensure"
    /\ result' = "None"
    /\ printed' = Append(printed,
            Msg("Manager install apps:",
                [k \in 1..Len(manager_install_apps) |-> manager_install_apps[k].name]))
    /\ manager' = set_manager(args, mode)
    /\ op' = "set_manager"
    /\ UNCHANGED <<args, app_name_list, idx, run_no, env_ctx, mode, app,
                   manager_install_apps, fs, log>>

\* 'if not manager_install_apps: return', else '--- set manager ---'
SetManager ==
    /\ pc = "resolve"
    /\ idx > Len(app_name_list)
    /\ IF manager_install_apps = <<>>
       THEN /\ pc' = "done"
            /\ result' = "None"
            /\ printed' = Append(printed,
                    Msg("All specified apps are already installed. No installation needed.",
                        <<>>))
            /\ UNCHANGED manager
       ELSE /\ pc' = "ensure"
            /\ result' = "None"
            /\ printed' = Append(printed,
                    Msg("Manager install apps:",
                        [k \in 1..Len(manager_install_apps) |->
                            manager_install_apps[k].name]))
            /\ manager' = set_manager(args, mode)
    /\ op' = "set_manager"
    /\ UNCHANGED <<args, app_name_list, idx, run_no, env_ctx, mode, app,
                   manager_install_apps, fs, log>>

\* main going on to '--- install apps ---' whatever ensure_available did.
EnsureAvailable_unchecked ==
    /\ pc = "ensure"
    /\ \E ext \in ExtBootstrap :
        LET r == ensure_available(manager, env_ctx, fs, ext) IN
        /\ manager' = r.manager
        /\ env_ctx' = r.ctx
        /\ fs' = r.fs
        /\ log' = log \o r.out
        /\ result' = r.res
        /\ pc' = "install"
    /\ op' = "ensure_available"
    /\ UNCHANGED <<args, app_name_list, idx, run_no, mode, app, manager_install_apps,
                   printed>>

\* 'if not manager.ensure_available(): raise RuntimeError'
EnsureAvailable ==
    /\ pc = "ensure"
    /\ \E ext \in ExtBootstrap :
        LET r == ensure_available(manager, env_ctx, fs, ext) IN
        /\ manager' = r.manager
        /\ env_ctx' = r.ctx
        /\ fs' = r.fs
        /\ log' = log \o r.out
        /\ result' = IF r.res = "False" THEN "RuntimeError" ELSE r.res
        /\ pc' = IF r.res = "True" THEN "install" ELSE "error"
    /\ op' = "ensure_available"
    /\ UNCHANGED <<args, app_name_list, idx, run_no, mode, app, manager_install_apps,
                   printed>>

\* '--- install apps ---'
InstallPackage ==
    /\ pc = "install"
    /\ \E ext \in ExtInstall(manager, BatchCmds(manager_install_apps)) :
        LET r == install_package(manager, env_ctx, fs, manager_install_apps,
                                 args.force_reinstall, ext)
        IN  /\ manager' = r.manager
            /\ env_ctx' = r.ctx
            /\ fs' = r.fs
            /\ log' = log \o r.out
            /\ result' = r.res
            /\ pc' = IF r.res = "None" THEN "done" ELSE "error"
    /\ op' = "install_package"
    /\ UNCHANGED <<args, app_name_list, idx, run_no, mode, app, manager_install_apps,
                   printed>>

\* The tool is started again with the same command line and the same list,
\* on the machine as the first run left it.  The second start is followed
\* for command lines without --force; with --force a second start repeats
\* the first one step for step.
Rerun ==
    /\ pc = "done"
    /\ run_no = 1
    /\ ~args.force_reinstall
    /\ run_no' = 2
    /\ pc' = "detect"
    /\ idx' = 1
    /\ env_ctx' = NoCtx
    /\ mode' = ""
    /\ app' = NoApp
    /\ manager_install_apps' = <<>>
    /\ manager' = NoManager
    /\ op' = ""
    /\ log' = <<>>
    /\ printed' = <<>>
    /\ result' = ""
    /\ UNCHANGED <<args, app_name_list, fs>>

Next ==
    \/ DetectEnvironment
    \/ ResolveApp
    \/ SetManager
    \/ EnsureAvailable
    \/ InstallPackage
    \/ Rerun

Spec == Init /\ [][Next]_vars

---------------------------------------------------------------------------
(* One manager instance under any sequence of calls *)

\* The apps handed to the manager: one with two commands, one with one.
MgrApps == {App("App", S_editorX), App("App", S_myTool)}

MgrCmds == UNION {AppCmds(a) : a \in MgrApps}

\* The batch install_package is called with.
MgrBatch == <<App("App", S_editorX), App("App", S_myTool)>>

\* The machines a manager instance is created on.  An installation of
\* mamba may hold the environment 'apps' with or without the binaries of the
\* batch, or, instead of it, an environment of another name.
FsMgr(m) ==
    IF m.cls = "Homebrew"
    THEN [path : SUBSET {S_brew}, binOnPath : {FALSE}, binDir : {TRUE},
          bin : {AllAbsent}, mamba : {{}}, env : {FALSE}, otherEnvs : {{}},
          envBin : {{}}]
    ELSE {f \in [path : {{}}, binOnPath : {FALSE}, binDir : {TRUE},
                 bin : BinInit(AppCmds(App("App", S_editorX)), {"file", "dangling"}),
                 mamba : SUBSET Locations,
                 env : BOOLEAN,
                 otherEnvs : {{}, {S_dev_apps}, {S_webapps}},
                 envBin : {{}, MgrCmds}] :
             /\ f.envBin # {} => f.env
             /\ f.env => f.mamba # {}
             /\ f.otherEnvs # {} => (f.mamba = {"home"} /\ ~f.env /\ f.bin = AllAbsent)}

InitMgr ==
    /\ manager \in {NewManager("Homebrew", "brew", "None"),
                    NewManager("Miniforge", "mamba", "None"),
                    NewManager("Miniforge", "mamba", "custom")}
    /\ env_ctx \in {EnvironmentContext(s) :
                      s \in IF manager.cls = "Homebrew" THEN BOOLEAN ELSE {FALSE}}
    /\ fs \in FsMgr(manager)
    /\ args = [mode |-> manager.name, force_reinstall |-> FALSE,
               custom_bin_path |-> manager.bin_path]
    /\ mode = manager.name
    /\ app_name_list = <<>>
    /\ pc = "api"
    /\ idx = 0
    /\ run_no = 1
    /\ app = NoApp
    /\ manager_install_apps = <<>>
    /\ op = ""
    /\ log = <<>>
    /\ printed = <<>>
    /\ result = ""

\* What every call does with what the operation hands back.
Called(name, r) ==
    /\ manager' = r.manager
    /\ env_ctx' = r.ctx
    /\ fs' = r.fs
    /\ log' = r.out
    /\ result' = r.res
    /\ op' = name
    /\ idx' = idx + 1
    /\ UNCHANGED <<args, app_name_list, pc, run_no, mode, printed>>

CallEnsureAvailable ==
    /\ pc = "api"
    /\ idx < MaxCalls
    /\ \E ext \in ExtBootstrap :
        Called("ensure_available", ensure_available(manager, env_ctx, fs, ext))
    /\ UNCHANGED <<app, manager_install_apps>>

CallInstallPackage ==
    /\ pc = "api"
    /\ idx < MaxCalls
    /\ \E packages_list \in {MgrBatch}, force_reinstall \in BOOLEAN :
        /\ manager_install_apps' = packages_list
        /\ \E ext \in ExtInstall(manager, BatchCmds(packages_list)) :
            Called("install_package",
                   install_package(manager, env_ctx, fs, packages_list,
                                   force_reinstall, ext))
    /\ UNCHANGED app

CallLinkBinary ==
    /\ pc = "api"
    /\ idx < MaxCalls
    /\ \E a \in MgrApps :
        /\ app' = a
        /\ \E linkFail \in SUBSET AppCmds(a) :
            Called("_link_binary", _link_binary(manager, env_ctx, fs, a, linkFail))
    /\ UNCHANGED manager_install_apps

CallCheckEnvExists ==
    /\ pc = "api"
    /\ idx < MaxCalls
    /\ manager.cls = "Miniforge"
    /\ Called("_check_env_exists", Miniforge_check_env_exists(manager, env_ctx, fs))
    /\ UNCHANGED <<app, manager_install_apps>>

CallCreateEnv ==
    /\ pc = "api"
    /\ idx < MaxCalls
    /\ manager.cls = "Miniforge"
    /\ \E ext \in [ok : {"ok", "fail"}] :
        Called("_create_env", Miniforge_create_env(manager, env_ctx, fs, ext))
    /\ UNCHANGED <<app, manager_install_apps>>

\* Outside the program: the manager's binary disappears from where it was.
FsChange ==
    /\ pc = "api"
    /\ \/ /\ S_brew \in fs.path
          /\ fs' = [fs EXCEPT !.path = @ \ {S_brew}]
       \/ /\ manager.bin_path \in fs.mamba
          /\ fs' = [fs EXCEPT !.mamba = @ \ {manager.bin_path}]
    /\ op' = "fs_change"
    /\ log' = <<>>
    /\ result' = ""
    /\ UNCHANGED <<args, app_name_list, pc, idx, run_no, env_ctx, mode, app,
                   manager_install_apps, manager, printed>>

NextMgr ==
    \/ CallEnsureAvailable
    \/ CallInstallPackage
    \/ CallLinkBinary
    \/ CallCheckEnvExists
    \/ CallCreateEnv
    \/ FsChange

SpecMgr == InitMgr /\ [][NextMgr]_vars

---------------------------------------------------------------------------
(* Properties *)

\* The effects a log entry can be.
IsInstallCmd(e) == e.op = "install"
IsCustomCall(e) == e.op = "custom"
IsEnvCreate(e) == e.op = "env_create"
IsEnvQuery(e) == e.op = "env_query"
IsBootstrap(e) == e.op = "bootstrap"
IsLinked(e) == e.op = "link" /\ e.who = "linked"
IsLinkFailed(e) == e.op = "link" /\ e.who = "failed"

Entries(l) == {l[k] : k \in 1..Len(l)}

\* The step is a call of the manager operation name.
IsCall(name) == op' = name /\ idx' = idx + 1

\* C1: with mode auto the manager is brew when the probed elevated access
\* is true and mamba when it is false; an explicit mode is the selected
\* manager whatever the probe said.  The instantiated manager is of the
\* selected mode's class.
C1_ManagerSelection ==
    /\ mode # "" =>
        /\ (args.mode = "auto" /\ env_ctx.has_sudo) => mode = "brew"
        /\ (args.mode = "auto" /\ ~env_ctx.has_sudo) => mode = "mamba"
        /\ args.mode # "auto" => mode = args.mode
    /\ manager # NoManager =>
        /\ manager.name = mode
        /\ manager.cls = (IF mode = "brew" THEN "Homebrew" ELSE "Miniforge")

\* C1 witness: auto mode, elevated access probed true, a Homebrew manager
\* has been instantiated.
C1_Witness ==
    /\ pc = "ensure"
    /\ args.mode = "auto"
    /\ env_ctx.has_sudo
    /\ manager.cls = "Homebrew"

\* The command list the catalog promises for a name: the catalog's entry,
\* else the lowercase name with every space replaced by a hyphen.
DerivedCommands(name) ==
    IF lower(name) \in DOMAIN COMMANDS_DICT
    THEN COMMANDS_DICT[lower(name)]
    ELSE <<hyphenate(lower(name))>>

\* C2: the commands of every App the loop builds are the catalog's list for
\* a catalogued name, else the single lowercase, hyphenated name.
C2_CommandDerivation ==
    app # NoApp => app.commands = DerivedCommands(app.name)

\* C3: the rerun, with the same list, the same mode and no force, invokes
\* no custom installer, issues no manager install command, creates no
\* environment and creates no symbolic link.
C3_RerunDoesNothing ==
    (run_no = 2 /\ ~args.force_reinstall) =>
        \A e \in Entries(log) :
            ~(IsCustomCall(e) \/ IsInstallCmd(e) \/ IsEnvCreate(e) \/ IsLinked(e))

C5_CustomFailureFallsBack ==
    (op = "resolve" /\ Len(log) > 0 /\ result \notin {"continue"}) =>
        /\ pc = "resolve"
        /\ Len(manager_install_apps) > 0
        /\ manager_install_apps[Len(manager_install_apps)] = app

\* C6: install_package and _link_binary called while the manager is not
\* ready do nothing: no install command, no environment query or creation,
\* no link, no change of the filesystem.
C6_NotReadyNoEffect ==
    [][(~manager.is_installed /\ (IsCall("install_package") \/ IsCall("_link_binary")))
          => /\ fs' = fs
             /\ \A e \in Entries(log') :
                    ~(IsInstallCmd(e) \/ IsEnvQuery(e) \/ IsEnvCreate(e) \/ IsLinked(e))]_vars

\* C7: ensure_available called on a ready manager returns success, runs no
\* bootstrap installer, raises nothing and leaves the manager ready.
C7_EnsureAvailableNoOpWhenReady ==
    [][(manager.is_installed /\ IsCall("ensure_available"))
          => /\ result' = "True"
             /\ manager'.is_installed
             /\ \A e \in Entries(log') : ~IsBootstrap(e)]_vars

\* The step runs the user-space _link_binary, alone or from install_package.
LinksUserSpace ==
    /\ manager.cls = "Miniforge"
    /\ IsCall("install_package") \/ IsCall("_link_binary")

\* C8: a command whose target ~/.local/bin/<command> is there keeps its
\* entry as it is and gets no link; and _link_binary on an app whose first
\* target exists changes nothing and raises nothing.
C8_LinkSkipsExistingTarget ==
    [][/\ LinksUserSpace =>
            \A c \in Cmds :
                fs.bin[c] # "absent" =>
                    /\ fs'.bin[c] = fs.bin[c]
                    /\ \A e \in Entries(log') : ~(IsLinked(e) /\ e.names = <<c>>)
       /\ (LinksUserSpace /\ IsCall("_link_binary") /\ exists(fs.bin[app'.commands[1]]))
            => /\ fs' = fs
               /\ result' = "None"]_vars

\* C8 witness: _link_binary met an existing target and returned normally.
C8_Witness ==
    /\ op = "_link_binary"
    /\ manager.cls = "Miniforge"
    /\ manager.is_installed
    /\ result = "None"
    /\ \E e \in Entries(log) : e.op = "link" /\ e.who = "skip_target"

\* The link of command c was attempted.
Attempted(l, c) ==
    \E e \in Entries(l) : e.op = "link" /\ e.who \in {"linked", "failed"} /\ e.names = <<c>>

\* C9: _link_binary on a ready user-space manager, for an app none of whose
\* targets exists, raises nothing and attempts the link of every command
\* whose source exists, whichever other sources are missing.
C9_MissingSourceSkipsOnlyThatCommand ==
    [][(/\ manager.cls = "Miniforge"
        /\ manager.is_installed
        /\ IsCall("_link_binary")
        /\ \A c \in AppCmds(app') : fs.bin[c] = "absent")
          => /\ result' = "None"
             /\ \A c \in AppCmds(app') :
                    source_exists(manager, fs, c) => Attempted(log', c)]_vars

\* The commands of a batch, in linking order.
RECURSIVE FlatCmds(_)
FlatCmds(packages_list) ==
    IF packages_list = <<>>
    THEN <<>>
    ELSE Head(packages_list).commands \o FlatCmds(Tail(packages_list))

\* The link entries of a log, in order.
LinkEntries(l) == SelectSeq(l, LAMBDA e : e.op = "link")

\* After every failed link the next command in linking order was taken up.
ContinuesAfterFailure(l, cmds) ==
    \A p \in 1..Len(l) :
        IsLinkFailed(l[p]) =>
            \A k \in 1..(Len(cmds) - 1) :
                cmds[k] = l[p].names[1] =>
                    /\ p < Len(l)
                    /\ l[p + 1].names = <<cmds[k + 1]>>

\* C10: a failing symlink_to is not propagated, and the command after it,
\* of the same app or the first of the next app of the batch, is taken up.
C10_LinkFailureAbsorbed ==
    /\ (op = "_link_binary" /\ manager.cls = "Miniforge"
            /\ \E e \in Entries(log) : IsLinkFailed(e))
          => /\ result = "None"
             /\ ContinuesAfterFailure(LinkEntries(log), app.commands)
    /\ (op = "install_package" /\ manager.cls = "Miniforge"
            /\ \E e \in Entries(log) : IsLinkFailed(e))
          => /\ result = "None"
             /\ ContinuesAfterFailure(LinkEntries(log), FlatCmds(manager_install_apps))

\* C10 witness: in a batch a link failed and the next command was linked.
C10_Witness ==
    /\ op = "install_package"
    /\ result = "None"
    /\ \E p \in 1..(Len(log) - 1) : IsLinkFailed(log[p]) /\ IsLinked(log[p + 1])

\* The positions of a log holding an entry of the given kind.
Positions(l, Kind(_)) == {p \in 1..Len(l) : Kind(l[p])}

\* C11: install_package of a ready user-space manager creates the
\* environment exactly once, before the install command, when it is not
\* there, does not create it when it is there, and issues the install
\* command only with the environment there.
C11_EnvCheckThenCreate ==
    [][(manager.cls = "Miniforge" /\ manager.is_installed /\ IsCall("install_package"))
          => /\ ~fs.env =>
                    /\ Cardinality(Positions(log', IsEnvCreate)) = 1
                    /\ \A p \in Positions(log', IsEnvCreate),
                          q \in Positions(log', IsInstallCmd) : p < q
             /\ fs.env => Positions(log', IsEnvCreate) = {}
             /\ Positions(log', IsInstallCmd) # {} => fs'.env]_vars

\* The names of the enqueued apps.
QueueNames(queue) == {queue[k].name : k \in 1..Len(queue)}

\* The resolution loop has ended on the list [editorX, unknownTool], without
\* elevated access and with none of the requested commands on the search
\* path.
UnknownToolScenario ==
    /\ app_name_list' = UnknownToolList
    /\ pc' = "resolve"
    /\ idx' > Len(app_name_list')
    /\ ~env_ctx'.has_sudo
    /\ \A c \in Cmds : ~which(fs', c)

\* A round of the resolution loop for a name that is not registered invokes
\* no custom installer and enqueues the generic App unless it is installed
\* and force is off.
UnregisteredRound ==
    (op' = "resolve" /\ idx' = idx + 1
        /\ lower(app_name_list[idx]) \notin APP_REGISTRY)
      => /\ log' = log
         /\ pc' = "resolve"
         /\ app' = App("App", app_name_list[idx])
         /\ manager_install_apps' =
                IF which(fs, app'.commands[1]) /\ ~args.force_reinstall
                THEN manager_install_apps
                ELSE Append(manager_install_apps, app')

\* C12 as stated: an unregistered name never reaches a custom installer and
\* is enqueued unless installed without force; in the scenario the enqueued
\* set is {editorX, unknown-tool}.
C12_AsStated ==
    [][/\ UnregisteredRound
       /\ UnknownToolScenario =>
            QueueNames(manager_install_apps') =
                {S_editorX, <<"u", "n", "k", "n", "o", "w", "n", "-", "t", "o", "o", "l">>}]_vars

\* C12, amended: as above, and in the scenario the enqueued set is
\* {editorX, unknownTool}: every app is enqueued under its requested name.
C12_UnregisteredToManager ==
    [][/\ UnregisteredRound
       /\ UnknownToolScenario =>
            QueueNames(manager_install_apps') = {S_editorX, S_unknownTool}]_vars

\* C12 witness: the scenario's list has been resolved without elevated
\* access and both apps are enqueued, no custom installer having run.
C12_Witness ==
    /\ app_name_list = UnknownToolList
    /\ pc = "ensure"
    /\ ~env_ctx.has_sudo
    /\ Len(manager_install_apps) = 2
    /\ log = <<>>

\* The entries a step adds to the log.
Added == SubSeq(log', Len(log) + 1, Len(log'))

\* C13: install_package is called only right after ensure_available has
\* returned True on the manager; an ensure_available that raises or returns
\* failure ends the run in failure, having issued no install command and
\* created no environment and no link, and nothing is done after it.
C13_AvailabilityBeforeInstall ==
    [][/\ op' = "install_package"
            => /\ op = "ensure_available"
               /\ result = "True"
               /\ manager.is_installed
       /\ (op' = "ensure_available" /\ result' # "True")
            => /\ pc' = "error"
               /\ fs'.env = fs.env
               /\ fs'.bin = fs.bin
               /\ \A e \in Entries(Added) : IsBootstrap(e)
       /\ (op = "ensure_available" /\ result # "True") => pc' = pc]_vars

\* C13 witness: the bootstrap installer was run and failed, and the run has
\* ended in failure with a non-empty enqueued list.
C13_Witness ==
    /\ op = "ensure_available"
    /\ pc = "error"
    /\ result = "CalledProcessError"
    /\ manager_install_apps # <<>>
    /\ \E e \in Entries(log) : IsBootstrap(e)

\* The names of a batch, in order.
BatchNames(packages_list) == [k \in 1..Len(packages_list) |-> packages_list[k].name]

\* What holds of every install_package call of a run apart from the number
\* of install commands: each install command names the whole batch, and a
\* call that fails ends the run in failure with nothing linked and nothing
\* done afterwards.
BatchFailureFatal ==
    /\ op' = "install_package"
         => /\ \A e \in Entries(Added) :
                  IsInstallCmd(e) =>
                      /\ e.who = manager.name
                      /\ e.names = BatchNames(manager_install_apps)
                      /\ e.force = args.force_reinstall
            /\ result' # "None"
                 => /\ pc' = "error"
                    /\ fs'.bin = fs.bin
                    /\ \A e \in Entries(Added) : e.op # "link"
    /\ (op = "install_package" /\ result # "None") => pc' = pc

\* C14 as stated: every install_package call issues exactly one install
\* command naming every enqueued app; when it fails the run ends in failure,
\* the command is not issued again and nothing of the batch is linked.
C14_AsStated ==
    [][/\ BatchFailureFatal
       /\ op' = "install_package"
            => Cardinality(Positions(Added, IsInstallCmd)) = 1]_vars

\* C14, amended: a call issues at most one install command, and exactly one
\* unless the user-space environment could not be created; the rest as
\* stated.
C14_BatchFailureFatal ==
    [][/\ BatchFailureFatal
       /\ op' = "install_package"
            => /\ Cardinality(Positions(Added, IsInstallCmd)) <= 1
               /\ (manager.cls = "Homebrew" \/ fs'.env)
                    => Cardinality(Positions(Added, IsInstallCmd)) = 1]_vars

\* C14 witness: the batch install command of the user-space manager failed
\* and the run ended in failure.
C14_Witness ==
    /\ op = "install_package"
    /\ pc = "error"
    /\ manager.cls = "Miniforge"
    /\ result = "CalledProcessError"
    /\ Len(manager_install_apps) > 1
    /\ \E e \in Entries(log) : IsInstallCmd(e) /\ e.who = "mamba"

\* The names a sequence of names holds.
Range(names) == {names[k] : k \in 1..Len(names)}

\* The line is a final report on the requested list: it shows the total
\* count and three groups of names, and every requested name is in exactly
\* one group.
IsFinalReport(line, requested) ==
    /\ {"total", "installed", "skipped", "failed"} \subseteq DOMAIN line
    /\ line.total = Len(requested)
    /\ \A n \in Range(requested) :
           Cardinality({g \in {"installed", "skipped", "failed"} :
                           n \in Range(line[g])}) = 1

\* C15: a run that has reached its end has printed a final report: the
\* total count and the requested apps in the groups installed, skipped and
\* failed, each app in exactly one group.  Stated for the runs over a
\* non-empty list.
C15_FinalReport ==
    (pc = "done" /\ app_name_list # <<>>) =>
        \E k \in 1..Len(printed) : IsFinalReport(printed[k], app_name_list)

\* C16: _link_binary on a ready user-space manager, for an app all of
\* whose sources exist, skips only the commands whose target exists: the
\* link of every command whose target does not exist is attempted.
C16_ExistingTargetSkipIsPerCommand ==
    [][(/\ manager.cls = "Miniforge"
        /\ manager.is_installed
        /\ IsCall("_link_binary")
        /\ \A c \in AppCmds(app') : source_exists(manager, fs, c))
          => \A c \in AppCmds(app') :
                 ~exists(fs.bin[c]) => Attempted(log', c)]_vars

\* C17: a ready user-space manager has its binary path set, and at the
\* step that makes it ready, the bootstrap installer's included, the file
\* at that path exists.
C17_ReadyImpliesConfirmedBinary ==
    [][manager'.cls = "Miniforge"
          => /\ manager'.is_installed => manager'.bin_path # "None"
             /\ (~manager.is_installed /\ manager'.is_installed)
                  => manager'.bin_path \in fs'.mamba]_vars

\* C18: when the resolution loop ends with nothing enqueued, main reports
\* that nothing is to be installed and returns: no manager is instantiated,
\* nothing is run, and neither ensure_available nor install_package is
\* called afterwards.
C18_EmptyBatchStops ==
    [][/\ (pc = "resolve" /\ idx > Len(app_name_list) /\ manager_install_apps = <<>>)
            => /\ pc' = "done"
               /\ result' = "None"
               /\ manager' = NoManager
               /\ log' = log
               /\ fs' = fs
               /\ printed'[Len(printed')].msg =
                      "All specified apps are already installed. No installation needed."
       /\ (pc = "done" /\ manager_install_apps = <<>>)
            => op' \notin {"set_manager", "ensure_available", "install_package"}]_vars

\* C18 witness: the only requested app was installed by its custom
\* installer, nothing was enqueued, and the run has ended without a manager.
C18_Witness ==
    /\ pc = "done"
    /\ manager_install_apps = <<>>
    /\ manager = NoManager
    /\ \E e \in Entries(log) : IsCustomCall(e)
    /\ \A e \in Entries(log) : ~IsBootstrap(e)

\* a is b with some of its elements left out.
RECURSIVE IsSubsequence(_, _)
IsSubsequence(a, b) ==
    IF a = <<>> THEN TRUE
    ELSE IF b = <<>> THEN FALSE
    ELSE IF Head(a) = Head(b) THEN IsSubsequence(Tail(a), Tail(b))
    ELSE IsSubsequence(a, Tail(b))

\* The commands of the link entries of a log, in order.
LinkedCmds(l) == [k \in 1..Len(LinkEntries(l)) |-> LinkEntries(l)[k].names[1]]

\* C19: every round of the resolution loop takes the next name of the list
\* and appends its app to the enqueued list unless it was skipped or its
\* custom installer was run, so the enqueued names are a subsequence of the
\* names taken so far, duplicates kept; the install command names the
\* enqueued apps in their order and the apps are linked in that order.
C19_OrderAndDuplicatesPreserved ==
    [][/\ (op' = "resolve" /\ result' = "continue")
            => /\ idx' = idx + 1
               /\ app'.name = app_name_list[idx]
               /\ manager_install_apps' =
                      IF (which(fs, app'.commands[1]) /\ ~args.force_reinstall)
                            \/ (\E e \in Entries(Added) : IsCustomCall(e))
                      THEN manager_install_apps
                      ELSE Append(manager_install_apps, app')
               /\ IsSubsequence(BatchNames(manager_install_apps'),
                                 SubSeq(app_name_list, 1, idx))
       /\ op' = "install_package"
            => /\ manager_install_apps' = manager_install_apps
               /\ \A e \in Entries(Added) :
                      IsInstallCmd(e) => e.names = BatchNames(manager_install_apps)
               /\ IsSubsequence(LinkedCmds(Added), FlatCmds(manager_install_apps))]_vars

\* C19 witness: a name requested twice was enqueued twice, the batch was
\* installed and linked by the user-space manager, and the run has ended.
C19_Witness ==
    /\ pc = "done"
    /\ Len(app_name_list) = 2
    /\ app_name_list[1] = app_name_list[2]
    /\ BatchNames(manager_install_apps) = app_name_list
    /\ Len(LinkEntries(log)) >= 2
    /\ \E e \in Entries(log) : IsInstallCmd(e) /\ e.names = app_name_list

\* C20: once the context has been produced, no step of the run changes
\* has_sudo, home or local_bin.
C20_ContextImmutable ==
    [][(env_ctx # NoCtx /\ run_no' = run_no)
          => /\ env_ctx'.has_sudo = env_ctx.has_sudo
             /\ env_ctx'.home = env_ctx.home
             /\ env_ctx'.local_bin = env_ctx.local_bin]_vars

\* C21: whatever the mode, once the context has been produced the
\* directory ~/.local/bin exists: before the resolution loop starts, and so
\* at every custom install, manager operation and link creation after it.
C21_LocalBinExists ==
    [][/\ pc = "detect" => (pc' = "resolve" /\ idx' = 1 /\ fs'.binDir)
       /\ pc # "detect" => (fs.binDir /\ fs'.binDir)]_vars

\* C21 witness: with the context constructed directly (--mode mamba) the
\* loop is about to start and the directory exists.
C21_Witness ==
    /\ args.mode = "mamba"
    /\ run_no = 1
    /\ pc = "resolve"
    /\ idx = 1
    /\ app_name_list # <<>>
    /\ env_ctx = EnvironmentContext(FALSE)
    /\ fs.binDir

\* The names main has announced a custom install for.
CustomNames(lines) ==
    {lines[k].names[1] : k \in {j \in 1..Len(lines) :
         lines[j].msg = "Installing via its custom install method."}}

\* C22: a round of the loop for a registered app that is not skipped
\* invokes the custom installer exactly once, with the force flag of the
\* run, and when the installer succeeds the app is not enqueued; no app
\* handled by its custom installer is named in the manager's install
\* command or has a command linked by the manager.
C22_CustomInstallBypassesManager ==
    [][/\ (/\ op' = "resolve"
           /\ lower(app_name_list[idx]) \in APP_REGISTRY
           /\ ~(which(fs, app'.commands[1]) /\ ~args.force_reinstall))
            => /\ Cardinality(Positions(Added, IsCustomCall)) = 1
               /\ \A e \in Entries(Added) :
                      IsCustomCall(e) => /\ e.names = <<app_name_list[idx]>>
                                         /\ e.force = args.force_reinstall
               /\ result' = "continue" => manager_install_apps' = manager_install_apps
       /\ op' = "install_package"
            => \A e \in Entries(Added), n \in CustomNames(printed) :
                   /\ IsInstallCmd(e) => n \notin Range(e.names)
                   /\ e.op = "link" => e.names[1] \notin Range(_get_commands(n))]_vars

\* C22 witness: neovim was installed by its custom installer, another app
\* went through the manager, and the manager's install command names only
\* the other app.
C22_Witness ==
    /\ pc = "done"
    /\ op = "install_package"
    /\ S_neovim \in CustomNames(printed)
    /\ BatchNames(manager_install_apps) = <<S_editorX>>
    /\ \E e \in Entries(log) : IsInstallCmd(e) /\ e.names = <<S_editorX>>

\* The candidates of the user-space discovery, in order: the path the
\* manager holds, the home location, the /opt location.
Candidates(m) ==
    (IF m.bin_path = "None" THEN <<>> ELSE <<m.bin_path>>) \o <<"home", "opt">>

\* The positions of the candidates that exist.
Existing(m, f) == {k \in 1..Len(Candidates(m)) : Candidates(m)[k] \in f.mamba}

\* C23: ensure_available of the user-space manager runs the bootstrap
\* installer only when no candidate exists; when one exists it records the
\* first existing candidate, runs no installer and returns True.
C23_DiscoveryOrder ==
    [][(manager.cls = "Miniforge" /\ IsCall("ensure_available"))
          => /\ (\E e \in Entries(log') : IsBootstrap(e)) => Existing(manager, fs) = {}
             /\ Existing(manager, fs) # {}
                  => /\ \E k \in Existing(manager, fs) :
                            /\ \A j \in Existing(manager, fs) : k <= j
                            /\ manager'.bin_path = Candidates(manager)[k]
                     /\ \A e \in Entries(log') : ~IsBootstrap(e)
                     /\ result' = "True"
                     /\ manager'.is_installed
                     /\ fs' = fs]_vars

\* C23 witness: the supplied path does not exist, nor does the home
\* location; the /opt location does and was recorded.
C23_Witness ==
    /\ op = "ensure_available"
    /\ args.custom_bin_path = "custom"
    /\ "custom" \notin fs.mamba
    /\ "home" \notin fs.mamba
    /\ manager.bin_path = "opt"
    /\ manager.is_installed
    /\ log = <<>>

\* C24: a manager instance starts not ready, becomes ready only in a call
\* of ensure_available and never becomes not ready again; the other
\* operations leave is_installed as it is.
C24_AvailabilityMonotonic ==
    [][/\ idx = 0 => ~manager.is_installed
       /\ manager.is_installed => manager'.is_installed
       /\ manager'.is_installed # manager.is_installed => IsCall("ensure_available")
       /\ (\/ IsCall("install_package")
           \/ IsCall("_link_binary")
           \/ IsCall("_check_env_exists")
           \/ IsCall("_create_env"))
            => manager'.is_installed = manager.is_installed]_vars

\* C24 witness: a manager made ready by ensure_available has gone through
\* two more calls, the last one _create_env, and is still ready.
C24_Witness ==
    /\ idx = 3
    /\ op = "_create_env"
    /\ result = "None"
    /\ manager.is_installed

IsDownload(e) == e.op = "download"

\* The step is a round of the loop that invoked the custom installer.
CustomRound == op' = "resolve" /\ \E e \in Entries(Added) : IsCustomCall(e)

\* C25: whatever the selected mode, the custom installer of neovim issues
\* 'brew install neovim' when brew is on the search path and then touches
\* nothing in ~/.local/bin; without brew it issues no brew command, leaves
\* an existing ~/.local/bin/nvim alone unless forced, and downloads it
\* otherwise.
C25_CustomInstallerIgnoresMode ==
    [][CustomRound
          => /\ which(fs, S_brew)
                  => /\ Cardinality(Positions(Added, IsInstallCmd)) = 1
                     /\ \A e \in Entries(Added) :
                            IsInstallCmd(e) => (e.who = "brew" /\ e.names = <<S_neovim>>)
                     /\ Positions(Added, IsDownload) = {}
                     /\ fs'.bin = fs.bin
             /\ ~which(fs, S_brew)
                  => /\ Positions(Added, IsInstallCmd) = {}
                     /\ (exists(fs.bin[S_nvim]) /\ ~args.force_reinstall)
                          => (Positions(Added, IsDownload) = {} /\ fs' = fs)
                     /\ ~(exists(fs.bin[S_nvim]) /\ ~args.force_reinstall)
                          => Cardinality(Positions(Added, IsDownload)) = 1]_vars

\* C25 witness: with --mode mamba selected and brew on the search path, the
\* custom installer has issued the brew install command.
C25_Witness ==
    /\ op = "resolve"
    /\ args.mode = "mamba"
    /\ mode = "mamba"
    /\ which(fs, S_brew)
    /\ \E e \in Entries(log) : IsCustomCall(e)
    /\ \E e \in Entries(log) : IsInstallCmd(e) /\ e.who = "brew" /\ e.names = <<S_neovim>>

====
